---- MODULE Spec2Model ----
(***************************************************************************)
(* Model of pymole's pre-build pipeline: build_tools/prepare_mole.py       *)
(* (download, extract and build Armadillo; download and extract MOLE;      *)
(* stage MOLE's src/cpp into the host tree; remove temp_build) and of      *)
(* setup.py's PreBuildCommand.run, which calls it before build_ext.run.    *)
(*                                                                         *)
(* The state is the part of the file system below base_dir that the code   *)
(* reads or writes, plus the position of the single thread of control.     *)
(*   temp_dir   = base_dir/temp_build                                      *)
(*   target_dir = base_dir/src/pymole/cpp                                  *)
(*   cpp_dir    = target_dir/cpp     (destination of copy_mole_sources and *)
(*                                    extraction root of the tarball)      *)
(*   package_dir = cpp_dir/armadillo-12.6.6,  build_dir = package_dir/build*)
(***************************************************************************)
EXTENDS Integers, Sequences, FiniteSets, TLC

\* ------------------------------------------------------------------ bounds
\* Number of invocations of the entry point that are explored.
MaxRuns == 3
\* Exit statuses of a toolchain phase range over 0..MaxExit.
MaxExit == 2

\* Names that direct children of mole-main/src/cpp may have in a fetched
\* archive: one regular file and one directory.
Names == {"mole.h", "sub"}

KindOf(n) == IF n = "sub" THEN "dir" ELSE "file"

\* A directory entry as fetched by run v: its kind, the run whose download
\* produced its bytes and, for a directory, the version of a child of the
\* same name nested in it (0: no such child).  A directory is one entry:
\* the files inside it are not told apart.
Entry(n, v) == [kind |-> KindOf(n), ver |-> v, inner |-> 0]

EmptyListing == [n \in {} |-> Entry(n, 0)]

\* A directory listing that may be missing: mole-main/src/cpp in temp_dir,
\* or below the root of a downloaded archive.
Tree(items) == [present |-> TRUE, items |-> items]
NoTree == [present |-> FALSE, items |-> EmptyListing]

\* The listings a project archive may hold below mole-main/src/cpp when it
\* is downloaded by run v (NoTree: the archive lacks the sub path).
Payloads(v) == {NoTree} \cup
               {Tree([n \in S |-> Entry(n, v)]) : S \in SUBSET Names}

NoErr == [type |-> "none", site |-> "none", code |-> 0]
Err(t, s, c) == [type |-> t, site |-> s, code |-> c]

ExitCodes == 0..MaxExit

VARIABLES
  pc,          \* position of the thread of control
  caller,      \* "prepare_mole" or "direct": who called copy_mole_sources
  runs,        \* invocations started so far
  err,         \* the exception in flight (NoErr: none)
  trace,       \* operations performed by the current invocation, in order
  hostRan,     \* build_ext.run was started by the current invocation
  tempDir,     \* temp_dir exists
  tarFile,     \* temp_dir/armadillo-12.6.6.tar.xz exists
  zipFile,     \* temp_dir/mole.zip exists
  zipPayload,  \* what the last downloaded mole.zip holds below the sub path
  moleTree,    \* listing of temp_dir/mole-main/src/cpp, or NoTree
  targetDir,   \* target_dir exists
  cppDir,      \* cpp_dir exists
  packageDir,  \* package_dir exists
  buildDir,    \* build_dir exists
  staged,      \* listing of cpp_dir without package_dir: name -> entry
  todo,        \* names of os.listdir's result not yet moved
  markers,     \* package_dir and build_dir existed when the invocation began
  preTar,      \* the tarball existed when the invocation began
  preZip,      \* mole.zip existed when the invocation began
  prevOk,      \* direct calls: the previous call on this source root returned
  afterDone,   \* the invocation before this one ended with build_ext.run
  lastExit,    \* exit status of the last toolchain phase of this invocation
  prePkg,      \* package_dir existed when the invocation began
  afterBuildFail \* the invocation before this one failed in a toolchain phase

vars == <<pc, caller, runs, err, trace, hostRan, tempDir, tarFile, zipFile,
          zipPayload, moleTree, targetDir, cppDir, packageDir, buildDir,
          staged, todo, markers, preTar, preZip, prevOk,
          afterDone, lastExit, prePkg, afterBuildFail>>

fsTemp == <<tempDir, tarFile, zipFile, moleTree>>
fsHost == <<targetDir, cppDir, packageDir, buildDir, staged>>
ghost  == <<markers, preTar, preZip, prevOk, afterDone, prePkg,
           afterBuildFail>>

Running == {"mkdir_temp", "fetch_dep", "extract_dep", "build_dep", "configure",
            "compile", "fetch_mole", "extract_mole", "unlink_zip",
            "stage_mkdir", "stage_list", "stage_move", "cleanup"}
Ended == {"idle", "build_done", "build_failed", "killed"}

Did(op) == \E i \in 1..Len(trace) : trace[i] = op
Log(op) == trace' = Append(trace, op)

\* -------------------------------------------------------------- Init
\* A checkout of the host project on which nothing has run yet: no
\* temp_build, nothing extracted, nothing staged.  src/pymole/cpp may or may
\* not be part of the checkout.
Init ==
  /\ pc = "idle" /\ caller = "prepare_mole" /\ runs = 0
  /\ err = NoErr /\ trace = <<>> /\ hostRan = FALSE
  /\ tempDir = FALSE /\ tarFile = FALSE /\ zipFile = FALSE
  /\ zipPayload = NoTree /\ moleTree = NoTree
  /\ targetDir \in BOOLEAN
  /\ cppDir = FALSE /\ packageDir = FALSE /\ buildDir = FALSE
  /\ staged = EmptyListing /\ todo = {}
  /\ markers = FALSE /\ preTar = FALSE /\ preZip = FALSE /\ prevOk = FALSE
  /\ afterDone = FALSE /\ lastExit = 0
  /\ prePkg = FALSE /\ afterBuildFail = FALSE

\* ------------------------------------------------------ setup.py, entry
\* PreBuildCommand.run calls prepare_mole(base_dir); prepare_mole computes
\* temp_dir and target_dir.
StartRun ==
  /\ pc \in Ended /\ runs < MaxRuns
  /\ pc' = "mkdir_temp" /\ caller' = "prepare_mole" /\ runs' = runs + 1
  /\ err' = NoErr /\ trace' = <<>> /\ hostRan' = FALSE /\ todo' = {}
  /\ markers' = (packageDir /\ buildDir) /\ preTar' = tarFile /\ preZip' = zipFile
  /\ zipPayload' = NoTree /\ prevOk' = FALSE
  /\ afterDone' = (pc = "build_done") /\ lastExit' = 0
  /\ prePkg' = packageDir
  /\ afterBuildFail' = (pc = "build_failed"
                          /\ err.site \in {"cmake_configure", "cmake_build"})
  /\ UNCHANGED <<fsTemp, fsHost>>

\* temp_dir.mkdir(exist_ok=True)
MkdirTemp ==
  /\ pc = "mkdir_temp"
  /\ tempDir' = TRUE /\ pc' = "fetch_dep"
  /\ UNCHANGED <<caller, runs, err, trace, hostRan, tarFile, zipFile, zipPayload,
                 moleTree, fsHost, todo, ghost, lastExit>>

\* Variant of FetchDep: the tarball is downloaded without looking whether
\* archive_name exists.
FetchDepAlways ==
  /\ pc = "fetch_dep"
  /\ Log("urlretrieve_dep")
  /\ \/ /\ tarFile' = TRUE /\ pc' = "extract_dep" /\ UNCHANGED err
     \/ /\ tarFile' \in {tarFile, TRUE}
        /\ err' = Err("URLError", "urlretrieve_dep", 0) /\ pc' = "cleanup"
  /\ UNCHANGED <<caller, runs, hostRan, tempDir, zipFile, zipPayload, moleTree,
                 fsHost, todo, ghost, lastExit>>

\* ------------------------------------------------- download_dependencies
\* 1. urlretrieve of the tarball unless archive_name exists.  A failed
\* transfer may leave a truncated file behind.
FetchDep ==
  /\ pc = "fetch_dep"
  /\ \/ /\ tarFile
        /\ pc' = "extract_dep"
        /\ UNCHANGED <<tarFile, err, trace>>
     \/ /\ ~tarFile
        /\ Log("urlretrieve_dep")
        /\ tarFile' = TRUE /\ pc' = "extract_dep" /\ UNCHANGED err
     \/ /\ ~tarFile
        /\ Log("urlretrieve_dep")
        /\ tarFile' \in BOOLEAN
        /\ err' = Err("URLError", "urlretrieve_dep", 0) /\ pc' = "cleanup"
  /\ UNCHANGED <<caller, runs, hostRan, tempDir, zipFile, zipPayload, moleTree,
                 fsHost, todo, ghost, lastExit>>

\* 2. tarfile.extractall(target_dir / "cpp") unless package_dir exists.
\* extractall creates the missing parents of what it extracts; an
\* unreadable archive fails before or after package_dir was created.
ExtractDep ==
  /\ pc = "extract_dep"
  /\ \/ /\ packageDir
        /\ pc' = "build_dep"
        /\ UNCHANGED <<targetDir, cppDir, packageDir, err, trace>>
     \/ /\ ~packageDir
        /\ Log("tar_extractall")
        /\ targetDir' = TRUE /\ cppDir' = TRUE /\ packageDir' = TRUE
        /\ pc' = "build_dep" /\ UNCHANGED err
     \/ /\ ~packageDir
        /\ Log("tar_extractall")
        /\ \E partial \in BOOLEAN :
             /\ packageDir' = partial
             /\ cppDir' = (cppDir \/ partial)
             /\ targetDir' = (targetDir \/ partial)
        /\ err' = Err("ReadError", "tar_extractall", 0) /\ pc' = "cleanup"
  /\ UNCHANGED <<caller, runs, hostRan, fsTemp, zipPayload, buildDir, staged,
                 todo, ghost, lastExit>>

\* Variant of BuildDep: the skip test looks at package_dir, which step 2
\* has just made sure of, in place of package_dir/build.
BuildDepWrongMarker ==
  /\ pc = "build_dep"
  /\ \/ /\ packageDir
        /\ pc' = "fetch_mole"
        /\ UNCHANGED <<buildDir, trace>>
     \/ /\ ~packageDir
        /\ Log("makedirs_build")
        /\ buildDir' = TRUE /\ pc' = "configure"
  /\ UNCHANGED <<caller, runs, err, hostRan, fsTemp, zipPayload, targetDir,
                 cppDir, packageDir, staged, todo, ghost, lastExit>>

\* Variant of BuildDep: build_armadillo is called whether or not
\* package_dir/build exists.
BuildDepAlways ==
  /\ pc = "build_dep"
  /\ Log("makedirs_build")
  /\ buildDir' = TRUE /\ pc' = "configure"
  /\ UNCHANGED <<caller, runs, err, hostRan, fsTemp, zipPayload, targetDir,
                 cppDir, packageDir, staged, todo, ghost, lastExit>>

\* Variant of BuildDep: build_armadillo does not create build_dir itself
\* (no os.makedirs before the configure phase).
BuildDepLateMarker ==
  /\ pc = "build_dep"
  /\ \/ /\ buildDir
        /\ pc' = "fetch_mole"
        /\ UNCHANGED <<buildDir, trace>>
     \/ /\ ~buildDir
        /\ Log("makedirs_build")
        /\ UNCHANGED buildDir /\ pc' = "configure"
  /\ UNCHANGED <<caller, runs, err, hostRan, fsTemp, zipPayload, targetDir,
                 cppDir, packageDir, staged, todo, ghost, lastExit>>

\* 3. build_armadillo(package_dir) unless package_dir/build exists; its
\* first statement is os.makedirs(build_dir, exist_ok=True).
BuildDep ==
  /\ pc = "build_dep"
  /\ \/ /\ buildDir
        /\ pc' = "fetch_mole"
        /\ UNCHANGED <<buildDir, trace>>
     \/ /\ ~buildDir
        /\ Log("makedirs_build")
        /\ buildDir' = TRUE /\ pc' = "configure"
  /\ UNCHANGED <<caller, runs, err, hostRan, fsTemp, zipPayload, targetDir,
                 cppDir, packageDir, staged, todo, ghost, lastExit>>

\* subprocess.check_call(cmd): raises CalledProcessError naming the command
\* and carrying its exit status when that status is not zero.
CheckCall(cmd, rc) ==
  IF rc = 0 THEN NoErr ELSE Err("CalledProcessError", cmd, rc)

\* Variant of Configure: the configure phase run with subprocess.call,
\* whose exit status nobody looks at.
ConfigureUnchecked ==
  /\ pc = "configure"
  /\ \E rc \in ExitCodes :
       /\ Log("cmake_configure")
       /\ lastExit' = rc
       /\ err' = NoErr
       /\ pc' = "compile"
  /\ UNCHANGED <<caller, runs, hostRan, fsTemp, zipPayload, fsHost, todo, ghost>>

\* build_armadillo: subprocess.check_call(cmake_configure)
Configure ==
  /\ pc = "configure"
  /\ \E rc \in ExitCodes :
       /\ Log("cmake_configure")
       /\ lastExit' = rc
       /\ err' = CheckCall("cmake_configure", rc)
       /\ pc' = IF err' = NoErr THEN "compile" ELSE "cleanup"
  /\ UNCHANGED <<caller, runs, hostRan, fsTemp, zipPayload, fsHost, todo, ghost>>

\* Variant of Compile: the compile phase run with subprocess.call, whose
\* exit status nobody looks at.
CompileUnchecked ==
  /\ pc = "compile"
  /\ \E rc \in ExitCodes :
       /\ Log("cmake_build")
       /\ lastExit' = rc
       /\ err' = NoErr
       /\ pc' = "fetch_mole"
  /\ UNCHANGED <<caller, runs, hostRan, fsTemp, zipPayload, fsHost, todo, ghost>>

\* build_armadillo: subprocess.check_call(cmake_build)
Compile ==
  /\ pc = "compile"
  /\ \E rc \in ExitCodes :
       /\ Log("cmake_build")
       /\ lastExit' = rc
       /\ err' = CheckCall("cmake_build", rc)
       /\ pc' = IF err' = NoErr THEN "fetch_mole" ELSE "cleanup"
  /\ UNCHANGED <<caller, runs, hostRan, fsTemp, zipPayload, fsHost, todo, ghost>>

\* ---------------------------------------------------------- download_mole
\* urllib.request.urlretrieve(MOLE_REPO, zip_path): no presence check.
FetchMole ==
  /\ pc = "fetch_mole"
  /\ Log("urlretrieve_mole")
  /\ \/ /\ zipFile' = TRUE
        /\ zipPayload' \in Payloads(runs)
        /\ pc' = "extract_mole" /\ UNCHANGED err
     \/ /\ zipFile' \in {zipFile, TRUE}
        /\ UNCHANGED zipPayload
        /\ err' = Err("URLError", "urlretrieve_mole", 0) /\ pc' = "cleanup"
  /\ UNCHANGED <<caller, runs, hostRan, tempDir, tarFile, moleTree, fsHost,
                 todo, ghost, lastExit>>

\* ZipFile.extractall(target_dir) over what temp_dir already holds: an
\* extracted name replaces the entry of that name; names the archive lacks
\* stay as they are.
ExtractAll(old, new) ==
  IF ~new.present THEN old
  ELSE Tree([n \in DOMAIN old.items \cup DOMAIN new.items |->
               IF n \in DOMAIN new.items THEN new.items[n] ELSE old.items[n]])

\* with zipfile.ZipFile(zip_path) as zip_ref: zip_ref.extractall(target_dir)
ExtractMole ==
  /\ pc = "extract_mole"
  /\ Log("zip_extractall")
  /\ \/ /\ moleTree' = ExtractAll(moleTree, zipPayload)
        /\ pc' = "unlink_zip" /\ UNCHANGED err
     \/ /\ UNCHANGED moleTree
        /\ err' = Err("BadZipFile", "zip_extractall", 0) /\ pc' = "cleanup"
  /\ UNCHANGED <<caller, runs, hostRan, tempDir, tarFile, zipFile, zipPayload,
                 fsHost, todo, ghost, lastExit>>

\* zip_path.unlink()
UnlinkZip ==
  /\ pc = "unlink_zip"
  /\ Log("zip_unlink")
  /\ zipFile' = FALSE /\ pc' = "stage_mkdir"
  /\ UNCHANGED <<caller, runs, err, hostRan, tempDir, tarFile, zipPayload,
                 moleTree, fsHost, todo, ghost, lastExit>>

\* ------------------------------------------------------ copy_mole_sources
\* Where control goes when copy_mole_sources ends with exception e.
After(e) ==
  IF caller = "prepare_mole" THEN "cleanup"
  ELSE IF e = NoErr THEN "stager_returned" ELSE "stager_raised"

\* cpp_dir.mkdir(exist_ok=True), without parents=True; the exists/makedirs
\* pair after it finds cpp_dir present whenever it is reached.
StageMkdir ==
  /\ pc = "stage_mkdir"
  /\ Log("mkdir_cpp")
  /\ IF cppDir \/ targetDir
     THEN /\ cppDir' = TRUE /\ pc' = "stage_list" /\ UNCHANGED err
     ELSE /\ err' = Err("FileNotFoundError", "mkdir_cpp", 0)
          /\ pc' = After(err') /\ UNCHANGED cppDir
  /\ UNCHANGED <<caller, runs, hostRan, fsTemp, zipPayload, targetDir,
                 packageDir, buildDir, staged, todo, ghost, lastExit>>

\* os.listdir(mole_cpp_dir)
StageList ==
  /\ pc = "stage_list"
  /\ Log("listdir")
  /\ IF moleTree.present
     THEN /\ todo' = DOMAIN moleTree.items /\ pc' = "stage_move" /\ UNCHANGED err
     ELSE /\ err' = Err("FileNotFoundError", "listdir", 0)
          /\ pc' = After(err') /\ UNCHANGED todo
  /\ UNCHANGED <<caller, runs, hostRan, fsTemp, zipPayload, fsHost, ghost, lastExit>>

\* shutil.move(s, d) of entry e named n into a directory that lists dst.
\*   d absent:       os.rename(s, d)
\*   d a directory:  real_dst = d/n; Error if it exists, else rename there
\*   d a file:       rename replaces it by a file; a directory cannot
\*                   replace it (rename and the copytree fallback both fail)
ShutilMove(e, dst, n) ==
  IF n \notin DOMAIN dst
  THEN [ok |-> TRUE,
        listing |-> [m \in DOMAIN dst \cup {n} |-> IF m = n THEN e ELSE dst[m]]]
  ELSE IF dst[n].kind = "dir"
  THEN IF dst[n].inner # 0
       THEN [ok |-> FALSE, listing |-> dst]
       ELSE [ok |-> TRUE, listing |-> [dst EXCEPT ![n].inner = e.ver]]
  ELSE IF e.kind = "file"
       THEN [ok |-> TRUE, listing |-> [dst EXCEPT ![n] = e]]
       ELSE [ok |-> FALSE, listing |-> dst]

Without(items, n) == [m \in DOMAIN items \ {n} |-> items[m]]

\* One iteration of the loop over os.listdir's result, in the order the
\* operating system gave; denied: the move fails on permissions.
StageMove ==
  /\ pc = "stage_move" /\ todo # {}
  /\ Log("move")
  /\ \E n \in todo, denied \in BOOLEAN :
       LET r == ShutilMove(moleTree.items[n], staged, n) IN
       IF r.ok /\ ~denied
       THEN /\ staged' = r.listing
            /\ moleTree' = Tree(Without(moleTree.items, n))
            /\ todo' = todo \ {n}
            /\ UNCHANGED <<pc, err>>
       ELSE /\ err' = IF denied THEN Err("PermissionError", "move", 0)
                      ELSE Err("shutil.Error", "move", 0)
            /\ pc' = After(err')
            /\ UNCHANGED <<staged, moleTree, todo>>
  /\ UNCHANGED <<caller, runs, hostRan, tempDir, tarFile, zipFile, zipPayload,
                 targetDir, cppDir, packageDir, buildDir, ghost, lastExit>>

\* Variant of StageDone: the emptied mole-main/src/cpp is removed as well,
\* as moving the directory itself (the statement commented out at line 94)
\* would leave things.
StageDoneRemovesSource ==
  /\ pc = "stage_move" /\ todo = {}
  /\ pc' = After(NoErr)
  /\ moleTree' = NoTree
  /\ UNCHANGED <<caller, runs, err, trace, hostRan, tempDir, tarFile, zipFile,
                 zipPayload, fsHost, todo, ghost, lastExit>>

\* The loop is exhausted: copy_mole_sources returns.
StageDone ==
  /\ pc = "stage_move" /\ todo = {}
  /\ pc' = After(NoErr)
  /\ UNCHANGED <<caller, runs, err, trace, hostRan, fsTemp, zipPayload, fsHost,
                 todo, ghost, lastExit>>

\* Variant of Cleanup: the rmtree is the last statement of the try body, not
\* a finally clause, so an exception passes it by.
CleanupOnSuccess ==
  /\ pc = "cleanup"
  /\ IF err = NoErr
     THEN /\ tempDir' = FALSE /\ tarFile' = FALSE /\ zipFile' = FALSE
          /\ moleTree' = NoTree
     ELSE UNCHANGED fsTemp
  /\ pc' = IF err = NoErr THEN "returned" ELSE "raised"
  /\ UNCHANGED <<caller, runs, err, trace, hostRan, zipPayload, fsHost, todo,
                 ghost, lastExit>>

\* Variant of Cleanup: the finally clause ends with a return statement,
\* which discards the exception in flight.
CleanupSwallows ==
  /\ pc = "cleanup"
  /\ tempDir' = FALSE /\ tarFile' = FALSE /\ zipFile' = FALSE
  /\ moleTree' = NoTree
  /\ err' = NoErr /\ pc' = "returned"
  /\ UNCHANGED <<caller, runs, trace, hostRan, zipPayload, fsHost, todo,
                 ghost, lastExit>>

\* Variant of Cleanup: the guard is inverted (if not temp_dir.exists()), so
\* the rmtree never runs.
CleanupGuardInverted ==
  /\ pc = "cleanup"
  /\ pc' = IF err = NoErr THEN "returned" ELSE "raised"
  /\ UNCHANGED <<caller, runs, err, trace, hostRan, fsTemp, zipPayload, fsHost,
                 todo, ghost, lastExit>>

\* ------------------------------------------------- prepare_mole, finally
\* if temp_dir.exists(): shutil.rmtree(temp_dir); then the function returns
\* or the exception in flight goes on to the caller.
Cleanup ==
  /\ pc = "cleanup"
  /\ tempDir' = FALSE /\ tarFile' = FALSE /\ zipFile' = FALSE
  /\ moleTree' = NoTree
  /\ pc' = IF err = NoErr THEN "returned" ELSE "raised"
  /\ UNCHANGED <<caller, runs, err, trace, hostRan, zipPayload, fsHost, todo,
                 ghost, lastExit>>

\* Variant of SuperRun: prepare_mole is wrapped in try/except, so
\* super().run() also follows a failed preparation.
SuperRunAnyway ==
  /\ pc \in {"returned", "raised"}
  /\ hostRan' = TRUE /\ pc' = "build_done"
  /\ UNCHANGED <<caller, runs, err, trace, fsTemp, zipPayload, fsHost, todo,
                 ghost, lastExit>>

\* ------------------------------------------------------------- setup.py
\* PreBuildCommand.run, after prepare_mole returned: super().run()
SuperRun ==
  /\ pc = "returned"
  /\ hostRan' = TRUE /\ pc' = "build_done"
  /\ UNCHANGED <<caller, runs, err, trace, fsTemp, zipPayload, fsHost, todo,
                 ghost, lastExit>>

\* PreBuildCommand.run has no handler: the exception leaves run() and the
\* build invocation ends in failure.
BuildAbort ==
  /\ pc = "raised"
  /\ pc' = "build_failed"
  /\ UNCHANGED <<caller, runs, err, trace, hostRan, fsTemp, zipPayload, fsHost,
                 todo, ghost, lastExit>>

\* The process is killed while prepare_mole runs: no finally clause runs
\* and the file system stays as it is.
Kill ==
  /\ pc \in Running
  /\ pc' = "killed"
  /\ UNCHANGED <<caller, runs, err, trace, hostRan, fsTemp, zipPayload, fsHost,
                 todo, ghost, lastExit>>

Next ==
  \/ StartRun \/ MkdirTemp \/ FetchDep \/ ExtractDep \/ BuildDep \/ Configure
  \/ Compile \/ FetchMole \/ ExtractMole \/ UnlinkZip \/ StageMkdir
  \/ StageList \/ StageMove \/ StageDone \/ Cleanup \/ SuperRun \/ BuildAbort
  \/ Kill

Spec == Init /\ [][Next]_vars

\* --------------------------------------- copy_mole_sources called directly
\* copy_mole_sources(source_dir, target_dir) called on its own, repeatedly
\* on the same source root: the root holds any listing an extraction of
\* run 1 may have produced, the target any state of target_dir and cpp_dir,
\* cpp_dir any entries that predate the calls (version 0).
InitStager ==
  /\ pc = "idle" /\ caller = "direct" /\ runs = 0
  /\ err = NoErr /\ trace = <<>> /\ hostRan = FALSE
  /\ tempDir = TRUE /\ tarFile = FALSE /\ zipFile = FALSE
  /\ zipPayload = NoTree /\ moleTree \in Payloads(1)
  /\ targetDir \in BOOLEAN /\ cppDir \in BOOLEAN /\ (cppDir => targetDir)
  /\ packageDir = FALSE /\ buildDir = FALSE
  /\ staged \in {[n \in S |-> Entry(n, 0)] : S \in SUBSET Names}
  /\ (staged # EmptyListing => cppDir)
  /\ todo = {}
  /\ markers = FALSE /\ preTar = FALSE /\ preZip = FALSE /\ prevOk = FALSE
  /\ afterDone = FALSE /\ lastExit = 0
  /\ prePkg = FALSE /\ afterBuildFail = FALSE

StagerCall ==
  /\ pc \in {"idle", "stager_returned", "stager_raised"} /\ runs < MaxRuns
  /\ pc' = "stage_mkdir" /\ runs' = runs + 1
  /\ err' = NoErr /\ trace' = <<>> /\ todo' = {}
  /\ prevOk' = (pc = "stager_returned")
  /\ UNCHANGED <<caller, hostRan, fsTemp, zipPayload, fsHost, markers, preTar,
                 preZip, afterDone, lastExit, prePkg, afterBuildFail>>

NextStager ==
  StagerCall \/ StageMkdir \/ StageList \/ StageMove \/ StageDone

SpecStager == InitStager /\ [][NextStager]_vars

\* ------------------------------------------------------------------ paths
\* Paths below base_dir, as the code builds them.
IsUnder(p, q) == Len(q) <= Len(p) /\ SubSeq(p, 1, Len(q)) = q

\* prepare_mole: temp_dir = base_dir / "temp_build"
TempDirPath == <<"temp_build">>
\* prepare_mole: target_dir = base_dir / "src" / "pymole" / "cpp"
TargetDirPath == <<"src", "pymole", "cpp">>
\* prepare_mole: download_dependencies(temp_dir, target_dir / "cpp")
DepTargetPath == Append(TargetDirPath, "cpp")
\* download_dependencies: package_dir = target_dir / "armadillo-12.6.6"
PackageDirPath == Append(DepTargetPath, "armadillo-12.6.6")
\* build_armadillo: build_dir = os.path.join(source_dir, "build")
BuildDirPath == Append(PackageDirPath, "build")
\* copy_mole_sources: cpp_dir = target_dir / "cpp"
CppDirPath == Append(TargetDirPath, "cpp")

\* ----------------------------------------------------------------- claims
Returned == pc \in {"returned", "build_done"}
Raised == pc \in {"raised", "build_failed"}
LastOp == IF trace = <<>> THEN "none" ELSE trace[Len(trace)]

\* C1: once prepare_mole has returned or raised to its caller, whatever step
\* failed (or none), the scratch directory temp_build does not exist.
C1_WorkspaceRemoved == (Returned \/ Raised) => ~tempDir

\* A run in which the compile phase failed has raised to its caller.
C1_Witness == pc = "raised" /\ err.site = "cmake_build" /\ ~tempDir

\* C2: a run that follows a completed run, with the extracted dependency
\* directory and its build directory present at its start, performs no
\* network fetch and no toolchain invocation and does not fail.
C2_SecondRunDoesNothing ==
  (afterDone /\ markers) =>
     /\ ~Did("urlretrieve_dep") /\ ~Did("urlretrieve_mole")
     /\ ~Did("cmake_configure") /\ ~Did("cmake_build")
     /\ ~Raised

\* C3: once a step has failed, the failed operation is the last operation
\* of the run, control is in (or past) the cleanup, no later step changes
\* the host tree, and the error that reaches the caller is the error that
\* step raised.
C3_AbortWithOriginalError ==
  /\ [](err # NoErr =>
          /\ pc \in {"cleanup", "raised", "build_failed", "killed"}
          /\ LastOp = err.site)
  /\ [][(err # NoErr /\ pc \in {"cleanup", "raised"}) =>
          /\ err' = err /\ trace' = trace /\ fsHost' = fsHost
          /\ pc' \in {"raised", "build_failed", "killed"}]_vars

\* The project download failed after the dependency was built, and the
\* caller has received that error.
C3_Witness ==
  /\ pc = "raised" /\ err = Err("URLError", "urlretrieve_mole", 0)
  /\ Did("cmake_build") /\ LastOp = "urlretrieve_mole"

\* C4: after a successful run every direct child the fetched project had
\* under mole-main/src/cpp is in the destination under its own name with
\* the fetched content, and the sub path is gone from its source location.
C4_StagingComplete ==
  Returned =>
     /\ \A n \in DOMAIN zipPayload.items :
           n \in DOMAIN staged /\ staged[n] = zipPayload.items[n]
     /\ ~moleTree.present

\* C5: an archive that exists when the run starts (nothing creates it
\* before its fetch step) is not downloaded: this for the tarball and for
\* the project zip.
C5_SkipOnPresence ==
  /\ preTar => ~Did("urlretrieve_dep")
  /\ preZip => ~Did("urlretrieve_mole")

\* C6 as stated: after prepare_mole returned no archive, no extracted tree
\* of either artifact and no build output that the run created is left.
C6_OnlyStagingTargetSurvives ==
  Returned =>
     /\ ~tarFile /\ ~zipFile /\ ~moleTree.present
     /\ Did("tar_extractall") => ~packageDir
     /\ Did("makedirs_build") => ~buildDir

\* C6 as amended: after prepare_mole returned, no downloaded archive and no
\* extracted tree of the project is left (temp_build is gone with all it
\* held), while the dependency's extracted tree and its build output are
\* on disk, below the staging directory.
C6_ScratchEntitiesGone ==
  Returned =>
     /\ ~tempDir /\ ~tarFile /\ ~zipFile /\ ~moleTree.present
     /\ cppDir /\ packageDir /\ buildDir
     /\ IsUnder(PackageDirPath, CppDirPath)

\* A run that downloaded, extracted and built the dependency has returned.
C6_Witness ==
  /\ pc = "returned" /\ Did("urlretrieve_dep") /\ Did("tar_extractall")
  /\ Did("cmake_build") /\ Did("zip_unlink") /\ packageDir /\ buildDir

\* C7: after a successful run the staging directory holds the staged
\* project sources only, and the numerical library's extracted tree and
\* build output lie outside it.
C7_LibraryOutsideStaging ==
  Returned =>
     /\ packageDir => ~IsUnder(PackageDirPath, CppDirPath)
     /\ buildDir => ~IsUnder(BuildDirPath, CppDirPath)

\* C8: build_ext.run is started only by an invocation whose prepare_mole
\* returned normally after the whole pipeline; an invocation in which a
\* step failed never starts it and ends in failure.
C8_HostBuildGated ==
  /\ hostRan => (pc = "build_done" /\ err = NoErr /\ Did("listdir") /\ ~tempDir)
  /\ pc = "build_failed" => (err # NoErr /\ ~hostRan)
  /\ err # NoErr => ~Returned

\* The host build ran in an invocation that follows a failed or killed one.
C8_Witness == hostRan /\ pc = "build_done" /\ runs >= 2 /\ ~afterDone

\* C9: when the compile phase (which runs only after configure exited with
\* zero) exits with a status other than zero, the exception in flight, in
\* build_armadillo and up to the caller of prepare_mole, is a
\* CalledProcessError naming the compile command and carrying that status.
C9_CompileFailureIdentified ==
  (LastOp = "cmake_build" /\ lastExit # 0) =>
     /\ err = Err("CalledProcessError", "cmake_build", lastExit)
     /\ pc \in {"cleanup", "raised", "build_failed", "killed"}

\* The compile phase exited with the largest status and the caller has the
\* error.
C9_Witness ==
  /\ pc = "raised" /\ Did("cmake_configure") /\ LastOp = "cmake_build"
  /\ lastExit = MaxExit /\ err.code = MaxExit

\* Some entry in cpp_dir was put there by a direct call of the stager.
MovedByCalls ==
  \E n \in DOMAIN staged : staged[n].ver = 1 \/ staged[n].inner = 1

CallEnded == pc \in {"stager_returned", "stager_raised"}

\* C10 as stated: a call of copy_mole_sources that follows a call which
\* moved the entries away fails with a missing-source error.
C10_SecondCallFails ==
  (prevOk /\ MovedByCalls /\ CallEnded) =>
     (pc = "stager_raised" /\ err = Err("FileNotFoundError", "listdir", 0))

\* C10 as amended: a call of copy_mole_sources that follows a call which
\* returned finds mole-main/src/cpp present and empty, moves nothing and
\* returns; the missing-source error arises only when the sub path itself
\* does not exist.
C10_SecondCallMovesNothing ==
  /\ (prevOk /\ CallEnded) =>
        /\ pc = "stager_returned" /\ err = NoErr
        /\ trace = <<"mkdir_cpp", "listdir">>
        /\ moleTree = Tree(EmptyListing)
  /\ err = Err("FileNotFoundError", "listdir", 0) => ~moleTree.present

\* The second call has ended after the first one moved entries.
C10_Witness == prevOk /\ MovedByCalls /\ CallEnded /\ runs = 2

\* C11 as stated: a run uses nothing that was in the workspace before it
\* started (the tarball it extracts is the one it downloaded, the project
\* entries it stages are the ones it extracted) and, once it has returned
\* or raised, leaves no workspace behind.
C11_WorkspaceExclusive ==
  /\ Did("tar_extractall") => Did("urlretrieve_dep")
  /\ (pc \in {"unlink_zip", "stage_mkdir", "stage_list", "stage_move"}) =>
        \A n \in DOMAIN moleTree.items : moleTree.items[n].ver = runs
  /\ (Returned \/ Raised) => ~tempDir

\* C11 as amended: a run takes over a workspace it finds (left by a killed
\* run): it does not download a tarball that is there, and a tarball it
\* extracts without having downloaded it is that leftover one; once the
\* run has returned or raised, the workspace and the archives are gone.
C11_WorkspaceReusedThenRemoved ==
  /\ preTar => ~Did("urlretrieve_dep")
  /\ (Did("tar_extractall") /\ ~Did("urlretrieve_dep")) => preTar
  /\ (Returned \/ Raised) => (~tempDir /\ ~tarFile /\ ~zipFile)

\* A run has extracted the tarball a killed run left and has returned.
C11_Witness ==
  /\ pc = "returned" /\ preTar /\ Did("tar_extractall")
  /\ ~Did("urlretrieve_dep") /\ ~tempDir

\* C12: the zip is gone once download_mole has unlinked it after a
\* successful extraction; a failed zip extraction leaves the zip to the
\* cleanup; the tarball is in place while the run goes on after its
\* extraction; and the tarball is still there when a run follows a
\* completed one.
C12_ArchiveRetention ==
  /\ Did("zip_unlink") => ~zipFile
  /\ (pc = "cleanup" /\ err.site = "zip_extractall") => zipFile
  /\ (pc \in Running /\ Did("tar_extractall")) => tarFile
  /\ afterDone => preTar

\* C13: an extract step that finds its output directory (package_dir for
\* the tarball, mole-main for the zip) performs no extraction.
C13_ExtractSkipped ==
  [][/\ (pc = "extract_dep" /\ packageDir) => trace' = trace
     /\ (pc = "extract_mole" /\ moleTree.present) => trace' = trace]_vars

\* The operations of one run in the order of the program text; "move"
\* stands for the stage loop, which moves one child per iteration.
StepOrder == <<"urlretrieve_dep", "tar_extractall", "makedirs_build",
               "cmake_configure", "cmake_build", "urlretrieve_mole",
               "zip_extractall", "zip_unlink", "mkdir_cpp", "listdir", "move">>

Pos(op) == CHOOSE i \in 1..Len(StepOrder) : StepOrder[i] = op

\* The step's own presence check did not find its output when the run
\* began (nothing but the step itself creates that output during a run).
Needed(op) ==
  CASE op = "urlretrieve_dep" -> ~preTar
    [] op = "tar_extractall" -> ~prePkg
    [] op \in {"makedirs_build", "cmake_configure", "cmake_build"} -> ~markers
    [] OTHER -> TRUE

FixedSteps == {StepOrder[k] : k \in 1..Len(StepOrder)} \ {"move"}

\* C14: the operations of a run occur in the order of StepOrder, none
\* twice (the stage loop apart, which is one step); a step that comes
\* before an executed one was executed too unless its presence check found
\* its output; a run that returned executed every step not so skipped; a
\* run that raised stopped at the failed operation; and the cleanup has
\* run when the caller gets control.
C14_StrictStepOrder ==
  /\ \A i, j \in 1..Len(trace) :
        i < j => \/ Pos(trace[i]) < Pos(trace[j])
                 \/ (trace[i] = "move" /\ trace[j] = "move")
  /\ \A i \in 1..Len(trace) : \A s \in FixedSteps :
        (Pos(s) < Pos(trace[i]) /\ Needed(s)) => Did(s)
  /\ Returned => \A s \in FixedSteps : Needed(s) => Did(s)
  /\ Raised => (err # NoErr /\ LastOp = err.site)
  /\ (Returned \/ Raised) => ~tempDir

\* A run on a fresh checkout executed every step, moved two children and
\* returned.
C14_Witness == pc = "returned" /\ trace = StepOrder \o <<"move">>

\* C15: the compile phase is invoked only right after a configure phase
\* that exited with zero; the operation that follows the creation of the
\* build directory is the configure phase; a configure phase that exits
\* with another status fails the build step with its error, and no compile
\* phase follows.
C15_ConfigureThenCompile ==
  /\ [](/\ Did("cmake_build") => Did("cmake_configure")
        /\ pc = "compile" => (LastOp = "cmake_configure" /\ lastExit = 0)
        /\ (LastOp = "cmake_configure" /\ lastExit # 0) =>
              /\ err = Err("CalledProcessError", "cmake_configure", lastExit)
              /\ pc \in {"cleanup", "raised", "build_failed", "killed"})
  /\ [][/\ trace' = Append(trace, "cmake_build") =>
              (LastOp = "cmake_configure" /\ lastExit = 0 /\ err = NoErr)
        /\ (LastOp = "makedirs_build" /\ trace' # trace /\ runs' = runs) =>
              trace' = Append(trace, "cmake_configure")]_vars

\* The configure phase failed and the caller has its error; no compile
\* phase ran.
C15_Witness ==
  /\ pc = "raised" /\ err.site = "cmake_configure" /\ err.code # 0
  /\ ~Did("cmake_build")

\* C16: a build step that finds package_dir/build invokes neither phase
\* and goes on to the project download without an error; a run that began
\* with the marker never invokes a phase.
C16_BuildSkippedOnMarker ==
  /\ [](markers => /\ ~Did("makedirs_build")
                   /\ ~Did("cmake_configure") /\ ~Did("cmake_build"))
  /\ [][(pc = "build_dep" /\ buildDir) =>
           /\ trace' = trace /\ err' = NoErr
           /\ pc' \in {"fetch_mole", "killed"}]_vars

\* A run that began with the marker has returned without a phase.
C16_Witness ==
  /\ pc = "returned" /\ markers /\ ~Did("cmake_configure")
  /\ Did("urlretrieve_mole")

\* The operations that come before copy_mole_sources.
EarlySites == {"urlretrieve_dep", "tar_extractall", "cmake_configure",
               "cmake_build", "urlretrieve_mole", "zip_extractall"}

\* C17: when the first run on a fresh checkout fails before the stage, the
\* staging directory cpp_dir does not exist afterwards; it holds staged
\* entries after a failed run only if the failure was in the stage loop.
C17_StagingUntouchedByEarlyFailure ==
  (runs = 1 /\ Raised) =>
     /\ err.site \in EarlySites => ~cppDir
     /\ staged # EmptyListing => err.site = "move"

\* C18: copy_mole_sources never fails in creating its destination: once
\* the mkdir has run, cpp_dir exists, whatever existed before the call.
C18_StagerCreatesDestination ==
  Did("mkdir_cpp") => (cppDir /\ err.site # "mkdir_cpp")

\* C19: build_dir exists from before the configure phase on, so it exists
\* after a run whose configure or compile phase failed; the run after such
\* a run finds the marker and invokes no toolchain phase.
C19_MarkerPrecedesBuild ==
  /\ (pc = "configure" \/ Did("cmake_configure")) => buildDir
  /\ err.site \in {"cmake_configure", "cmake_build"} => buildDir
  /\ afterBuildFail =>
        /\ markers
        /\ ~Did("makedirs_build")
        /\ ~Did("cmake_configure") /\ ~Did("cmake_build")

\* The run after a failed build has skipped the build, reached the end and
\* the host build has started.
C19_Witness ==
  /\ afterBuildFail /\ pc = "build_done" /\ hostRan
  /\ Did("urlretrieve_mole") /\ ~Did("cmake_build")

\* C20: a run that follows a completed run and whose stage is not denied
\* by permissions returns, and leaves every child of the freshly fetched
\* sub path at cpp_dir/<name> with the fetched content, in place of what
\* the earlier run staged there.
C20_RestagingReplaces ==
  /\ (afterDone /\ Returned) =>
        \A n \in DOMAIN zipPayload.items :
           n \in DOMAIN staged /\ staged[n] = zipPayload.items[n]
  /\ (afterDone /\ Raised) => err.type # "shutil.Error"

====
